---- MODULE Spec2Model ----
(***************************************************************************)
(* The survey backend (Den-starc/Backend, package survey) as a state       *)
(* machine over its relational store.  One action per HTTP handler of      *)
(* survey/api/views.py; each action is the whole handler: permission       *)
(* check, validator pipeline, get-or-create of the respondent session,     *)
(* per-type answer strategy, model save() overrides and cascades.          *)
(***************************************************************************)
EXTENDS Integers, Sequences, FiniteSets, TLC

VARIABLES
    surveys,    \* survey uuid -> [name, status, is_anonymous, owners, end_date]
    questions,  \* question uuid -> [survey, seq_id, type, name]
    options,    \* answer option uuid -> [question, name]
    responses,  \* sequence of UserResponse rows; the index is the row's uuid
    answers,    \* bag of UserAnswer rows [ur, q, opt, text] (row -> how many)
    now,        \* timezone.now()
    resp,       \* the HTTP response of the last request
    toggled,    \* history: <<session, MultipleChoice question, option>> accepted an odd number of times
    lastSub,    \* history: <<session, SingleChoice question>> -> option last accepted
    retyped,    \* history: questions whose type an update has changed
    calls       \* worker -> the request it is in the middle of handling

vars == <<surveys, questions, options, responses, answers, now, resp,
          toggled, lastSub, retyped, calls>>

store == <<surveys, questions, options, responses, answers>>
history == <<toggled, lastSub, retyped>>

----------------------------------------------------------------------------
\* Bounds of the model.

\* timezone.now() takes the values 1..MaxTime.
MaxTime == 2
\* At most MaxSessions UserResponse rows are created per survey.
MaxSessions == 1
\* At most MaxRows UserAnswer rows per (session, question).
MaxRows == 2
\* MaxCalls workers handle requests at the same time.
MaxCalls == 2

----------------------------------------------------------------------------
\* Values.

\* Python None / SQL NULL in a string-valued column or argument.
None == "none"
\* request.COOKIES.get("user_response_uuid") when the cookie is absent.
NoToken == 0
\* completed_at / end_date NULL.
NullTime == 0

DRAFT == "draft"
ACTIVE == "active"
CLOSED == "closed"
ARCHIVED == "archived"
SurveyStatus == {DRAFT, ACTIVE, CLOSED, ARCHIVED}

SINGLE_CHOICE == "single_choice"
MULTIPLE_CHOICE == "multiple_choice"
TEXT == "text"
QuestionType == {SINGLE_CHOICE, MULTIPLE_CHOICE, TEXT}

IN_PROGRESS == "IN_PROGRESS"
COMPLETED == "COMPLETED"

\* request.user of an unauthenticated request.
AnonymousUser == "anonymous"
Users == {"u1", "u2"}
Callers == Users \cup {AnonymousUser}

\* Python truthiness of an optional string: None and "" are falsy.
Truthy(x) == x \notin {None, ""}

\* Error messages of the validators (ValidateAnswerError.message).
OK == "ok"
ErrNotActive == "survey is not active"
ErrChoiceShape == "answer must contain the chosen option"
ErrCompleted == "survey already completed"
ErrTextShape == "answer must contain text"
ErrNotStarted == "user has not started the survey"
ErrAnswers == "answers validation error"
ErrSurveyName == "survey has no name"
ErrNoQuestions == "survey must have a question"
ErrQuestionName == "question with empty name"
ErrNoOptions == "question must have an option"
ErrOptionName == "option with empty name"
ErrDupQuestions == "questions must not repeat"
ErrDupOptions == "options must not repeat"
\* Per-question messages of the completion validators.
MsgMissing == "answer missing"
MsgNoText == "no text in field"
MsgMultiple == "several answers for single field"

----------------------------------------------------------------------------
\* The UserAnswer table as a bag.

EmptyAnswers == [r \in {} |-> 0]

AddRow(B, r) ==
    IF r \in DOMAIN B
    THEN [B EXCEPT ![r] = @ + 1]
    ELSE [x \in DOMAIN B \cup {r} |-> IF x = r THEN 1 ELSE B[x]]

DelRow(B, r) ==
    IF B[r] > 1
    THEN [B EXCEPT ![r] = @ - 1]
    ELSE [x \in DOMAIN B \ {r} |-> B[x]]

RECURSIVE SumOver(_, _)
SumOver(B, S) ==
    IF S = {} THEN 0
    ELSE LET r == CHOOSE x \in S : TRUE IN B[r] + SumOver(B, S \ {r})

\* UserAnswer.objects.filter(user_response=ur, question=q): the distinct rows.
RowsOf(B, ur, q) == {r \in DOMAIN B : r.ur = ur /\ r.q = q}
\* ... and their number.
CountOf(B, ur, q) == SumOver(B, RowsOf(B, ur, q))

\* QuerySet.first() under Meta.ordering = ["question__seq_id"]: rows of one
\* question tie, so any of them may come first.  The result is a set holding
\* that row, or the empty set for Python's None.
FirstOf(S) == IF S = {} THEN {{}} ELSE {{r} : r \in S}

TheRow(first) == CHOOSE r \in first : TRUE

Max(S) == CHOOSE x \in S : \A y \in S : y <= x

----------------------------------------------------------------------------
\* Identity resolution.

\* UserAnswerRequest / the handlers' locals: the request context.
Request(user, sv, q, o, t, token) ==
    [user |-> user, survey |-> sv, question |-> q, answer_option |-> o,
     text_answer |-> t, user_response_uuid |-> token]

\* views: user = None if survey.is_anonymous else request.user
EffectiveUser(caller, sv) == IF surveys[sv].is_anonymous THEN None ELSE caller

\* PermissionManager.check: AllowAny only for an unauthenticated caller of
\* retrieve / complete / create on an anonymous survey, else IsAuthenticated.
Permitted(caller, action, sv) ==
    IF caller = AnonymousUser /\ action \in {"retrieve", "complete", "create"}
       /\ sv \in DOMAIN surveys /\ surveys[sv].is_anonymous
    THEN TRUE
    ELSE caller # AnonymousUser

\* A get_user_response that looks the session up by token on every survey.
GetUserResponse_ByToken(sv, user, token) ==
    IF token \in DOMAIN responses /\ responses[token].survey = sv
    THEN token ELSE NoToken

\* SurveyManager.get_user_response: by token on an anonymous survey, by user
\* otherwise; .first() under ordering -created_at is the newest row.
\* NoToken (0) stands for None.
GetUserResponse(sv, user, token) ==
    LET found == {i \in DOMAIN responses :
                    /\ responses[i].survey = sv
                    /\ IF surveys[sv].is_anonymous
                       THEN i = token
                       ELSE responses[i].user = user}
    IN IF found = {} THEN NoToken ELSE Max(found)

\* A get_or_create that looks the session up by survey alone.
GetOrCreateMatches_AnyUser(user, sv, token) ==
    {i \in DOMAIN responses :
        /\ responses[i].survey = sv
        /\ (user = None => i = token)}

\* UserAnswerViewSet._get_or_create_user_response: the rows get() looks at,
\* filter(Q(uuid=token) if not user else Q(user=user)).get(user=, survey=).
GetOrCreateMatches(user, sv, token) ==
    {i \in DOMAIN responses :
        /\ responses[i].survey = sv
        /\ responses[i].user = user
        /\ (user = None => i = token)}

NewResponse(user, sv) ==
    [survey |-> sv, user |-> user, status |-> IN_PROGRESS, completed_at |-> NullTime]

----------------------------------------------------------------------------
\* Validators of the submit-answer pipeline.

\* RequestBaseValidator.validate: the first validator that raises decides.
RECURSIVE FirstError(_)
FirstError(errs) ==
    IF errs = << >> THEN OK
    ELSE IF Head(errs) # OK THEN Head(errs) ELSE FirstError(Tail(errs))

IsSurveyActiveValidator(req) ==
    IF surveys[req.survey].status # ACTIVE THEN ErrNotActive ELSE OK

\* AnswerValidatorMixin.get_question_type
GetQuestionType(q) == IF q \in DOMAIN questions THEN questions[q].type ELSE None

ChoiceAnswerValidator(req) ==
    IF GetQuestionType(req.question) # TEXT /\ Truthy(req.text_answer)
    THEN ErrChoiceShape ELSE OK

TextAnswerValidator(req) ==
    IF GetQuestionType(req.question) = TEXT /\ Truthy(req.answer_option)
    THEN ErrTextShape ELSE OK

IsSurveyCompleted(req) ==
    LET ur == GetUserResponse(req.survey, req.user, req.user_response_uuid)
    IN IF ur # NoToken THEN responses[ur].status = COMPLETED ELSE FALSE

\* A CompletedSurveyValidator that never raises.
CompletedSurveyValidator_Off(req) == OK

CompletedSurveyValidator(req) ==
    IF IsSurveyCompleted(req) THEN ErrCompleted ELSE OK

\* UserAnswerChecker without its session-not-completed validator.
UserAnswerChecker_NoCompleted(req) ==
    FirstError(<<IsSurveyActiveValidator(req),
                 ChoiceAnswerValidator(req),
                 TextAnswerValidator(req)>>)

UserAnswerChecker(req) ==
    FirstError(<<IsSurveyActiveValidator(req),
                 ChoiceAnswerValidator(req),
                 CompletedSurveyValidator(req),
                 TextAnswerValidator(req)>>)

----------------------------------------------------------------------------
\* The answer update strategies.  first is the row .first() returned.

NewAnswer(ur, q, o, t) == [ur |-> ur, q |-> q, opt |-> o, text |-> t]

\* A TextQuestionStrategy that writes the empty text instead of deleting.
TextQuestionStrategy_KeepEmpty(B, ur, q, t, first) ==
    IF first # {}
    THEN AddRow(DelRow(B, TheRow(first)), [TheRow(first) EXCEPT !.text = t])
    ELSE IF Truthy(t) THEN AddRow(B, NewAnswer(ur, q, None, t)) ELSE B

TextQuestionStrategy(B, ur, q, t, first) ==
    IF first # {}
    THEN IF Truthy(t)
         THEN AddRow(DelRow(B, TheRow(first)), [TheRow(first) EXCEPT !.text = t])
         ELSE DelRow(B, TheRow(first))
    ELSE IF Truthy(t) THEN AddRow(B, NewAnswer(ur, q, None, t)) ELSE B

\* A SingleChoiceQuestionStrategy that inserts a row for every submission.
SingleChoiceQuestionStrategy_Insert(B, ur, q, o, first) ==
    AddRow(B, NewAnswer(ur, q, o, None))

SingleChoiceQuestionStrategy(B, ur, q, o, first) ==
    IF first # {}
    THEN AddRow(DelRow(B, TheRow(first)), [TheRow(first) EXCEPT !.opt = o])
    ELSE AddRow(B, NewAnswer(ur, q, o, None))

MultipleChoiceQuestionStrategy(B, ur, q, o, first) ==
    IF first # {}
    THEN DelRow(B, TheRow(first))
    ELSE AddRow(B, NewAnswer(ur, q, o, None))

\* The MultipleChoice lookup without its answer_option filter.
StrategyCandidates_AnyOption(B, ur, q, o) == RowsOf(B, ur, q)

\* The queryset each strategy takes .first() of.
StrategyCandidates(B, ur, q, o) ==
    IF questions[q].type = MULTIPLE_CHOICE
    THEN {r \in RowsOf(B, ur, q) : r.opt = o}
    ELSE RowsOf(B, ur, q)

\* QuestionHandlerFactory.get_strategy(question.type).handle_answer
HandleAnswer(B, ur, q, o, t, first) ==
    CASE questions[q].type = TEXT -> TextQuestionStrategy(B, ur, q, t, first)
      [] questions[q].type = SINGLE_CHOICE -> SingleChoiceQuestionStrategy(B, ur, q, o, first)
      [] questions[q].type = MULTIPLE_CHOICE -> MultipleChoiceQuestionStrategy(B, ur, q, o, first)

----------------------------------------------------------------------------
\* Validators of the complete-survey pipeline.

ErrServer == "server error"

\* Q(user=user) if user else Q(uuid=token): the rows of the respondent.
IsRespondent(i, user, token) ==
    IF user # None THEN responses[i].user = user ELSE i = token

\* SurveyNotStartedValidator: UserResponse.objects.get(...) must find a row;
\* several rows raise MultipleObjectsReturned, which nothing catches.
SurveyNotStartedValidator(req) ==
    LET n == Cardinality({i \in DOMAIN responses :
                 /\ responses[i].survey = req.survey
                 /\ IsRespondent(i, req.user, req.user_response_uuid)})
    IN IF n = 0 THEN ErrNotStarted ELSE IF n > 1 THEN ErrServer ELSE OK

\* QuestionManager.get_survey_questions: the survey's questions, joined with
\* the respondent's sessions on that survey.
GetSurveyQuestions(sv, user, token) ==
    IF \E i \in DOMAIN responses :
          responses[i].survey = sv /\ IsRespondent(i, user, token)
    THEN {q \in DOMAIN questions : questions[q].survey = sv}
    ELSE {}

\* The Prefetch("answers", ...) of get_survey_questions: the question's answers
\* whose session is the respondent's (the filter names no survey).
PrefetchedAnswers(q, user, token) ==
    {r \in DOMAIN answers : r.q = q /\ IsRespondent(r.ur, user, token)}

TextQuestionAnswerValidatorExtended(first) ==
    IF first = {} THEN MsgMissing
    ELSE IF ~Truthy(TheRow(first).text) THEN MsgNoText ELSE OK

SingleChoiceQuestionAnswerValidatorExtended(n) ==
    IF n = 0 THEN MsgMissing ELSE IF n > 1 THEN MsgMultiple ELSE OK

MultipleChoiceValidatorExtendedQuestion(n) ==
    IF n = 0 THEN MsgMissing ELSE OK

\* QuestionAnswersValidator._validator_map[question.type].check(question);
\* pick[q] is what question.answers.first() returns.
QuestionCheck(q, user, token, pick) ==
    LET rows == PrefetchedAnswers(q, user, token)
        n == SumOver(answers, rows)
    IN CASE questions[q].type = TEXT -> TextQuestionAnswerValidatorExtended(pick[q])
         [] questions[q].type = SINGLE_CHOICE -> SingleChoiceQuestionAnswerValidatorExtended(n)
         [] questions[q].type = MULTIPLE_CHOICE -> MultipleChoiceValidatorExtendedQuestion(n)

\* The outcomes of .first() on each Text question's answers.
FirstChoices(q, user, token) ==
    IF questions[q].type = TEXT
    THEN FirstOf(PrefetchedAnswers(q, user, token))
    ELSE {{}}

Picks(sv, user, token) ==
    LET Qs == {q \in DOMAIN questions : questions[q].survey = sv}
        All == UNION {FirstChoices(q, user, token) : q \in Qs}
    IN {f \in [Qs -> All] : \A q \in Qs : f[q] \in FirstChoices(q, user, token)}

\* A QuestionAnswersValidator.check that stops at the first failing question.
QuestionErrorMap_FailFast(req, pick) ==
    LET Qs == GetSurveyQuestions(req.survey, req.user, req.user_response_uuid)
        Bad == {q \in Qs :
                  QuestionCheck(q, req.user, req.user_response_uuid, pick) # OK}
        Stop == {q \in Bad : \A p \in Bad : questions[q].seq_id <= questions[p].seq_id}
    IN [q \in Stop |-> QuestionCheck(q, req.user, req.user_response_uuid, pick)]

\* QuestionAnswersValidator.check: the question_error_map.
QuestionErrorMap(req, pick) ==
    LET Qs == GetSurveyQuestions(req.survey, req.user, req.user_response_uuid)
        Bad == {q \in Qs :
                  QuestionCheck(q, req.user, req.user_response_uuid, pick) # OK}
    IN [q \in Bad |-> QuestionCheck(q, req.user, req.user_response_uuid, pick)]

NoErrors == [q \in {} |-> OK]

QuestionAnswersValidator(req, pick) ==
    IF DOMAIN QuestionErrorMap(req, pick) # {} THEN ErrAnswers ELSE OK

CompletedSurveyChecker(req, pick) ==
    FirstError(<<CompletedSurveyValidator(req),
                 SurveyNotStartedValidator(req),
                 QuestionAnswersValidator(req, pick)>>)

----------------------------------------------------------------------------
\* Validators of the publish pipeline (CreateSurveyChecker).

QuestionsOf(sv) == {q \in DOMAIN questions : questions[q].survey = sv}
OptionsOf(q) == {o \in DOMAIN options : options[o].question = q}

\* A set of questions as the sequence Question.Meta.ordering = ["seq_id"] yields.
RECURSIVE BySeqId(_)
BySeqId(S) ==
    IF S = {} THEN << >>
    ELSE LET m == CHOOSE x \in S : \A y \in S : questions[x].seq_id <= questions[y].seq_id
         IN <<m>> \o BySeqId(S \ {m})

SurveyNameValidator(req) ==
    IF ~Truthy(surveys[req.survey].name) THEN ErrSurveyName ELSE OK

SurveyQuestionsValidator(req) ==
    IF QuestionsOf(req.survey) = {} THEN ErrNoQuestions
    ELSE IF \E q \in QuestionsOf(req.survey) : ~Truthy(questions[q].name)
         THEN ErrQuestionName ELSE OK

\* One question of SurveyAnswersValidator's loop.
QuestionOptionsCheck(q) ==
    IF OptionsOf(q) = {} THEN ErrNoOptions
    ELSE IF \E o \in OptionsOf(q) : ~Truthy(options[o].name)
         THEN ErrOptionName ELSE OK

SurveyAnswersValidator(req) ==
    LET qs == BySeqId({q \in QuestionsOf(req.survey) : questions[q].type # TEXT})
    IN FirstError([i \in 1..Len(qs) |-> QuestionOptionsCheck(qs[i])])

\* A UniqueQuestionsValidator that never raises.
UniqueQuestionsValidator_Off(req) == OK

UniqueQuestionsValidator(req) ==
    IF Cardinality(QuestionsOf(req.survey))
         # Cardinality({questions[q].name : q \in QuestionsOf(req.survey)})
    THEN ErrDupQuestions ELSE OK

UniqueAnswerOptionsQuestionValidator(req) ==
    IF \E q \in QuestionsOf(req.survey) :
          Cardinality(OptionsOf(q)) # Cardinality({options[o].name : o \in OptionsOf(q)})
    THEN ErrDupOptions ELSE OK

\* A CreateSurveyChecker that looks at the questions before the name.
CreateSurveyChecker_QuestionsFirst(req) ==
    FirstError(<<SurveyQuestionsValidator(req),
                 SurveyNameValidator(req),
                 SurveyAnswersValidator(req),
                 UniqueQuestionsValidator(req),
                 UniqueAnswerOptionsQuestionValidator(req)>>)

CreateSurveyChecker(req) ==
    FirstError(<<SurveyNameValidator(req),
                 SurveyQuestionsValidator(req),
                 SurveyAnswersValidator(req),
                 UniqueQuestionsValidator(req),
                 UniqueAnswerOptionsQuestionValidator(req)>>)

----------------------------------------------------------------------------
\* The handlers.

\* A field a PATCH request does not carry.
Absent == "absent"

\* The session fields of a body that is not a serialized survey.
NoData == [user_response |-> NoToken, is_user_owner |-> FALSE,
           can_finish |-> FALSE, is_completed |-> FALSE]

Response(op, err, qmap, cookie) ==
    [op |-> op, err |-> err, questions_error_map |-> qmap, cookie |-> cookie,
     data |-> NoData]

Put(f, k, v) == [x \in DOMAIN f \cup {k} |-> IF x = k THEN v ELSE f[x]]

\* A create() that resolves the session before it validates the answer.
GetOrCreateUserResponse_Unvalidated(err, user, sv, token) ==
    IF GetOrCreateMatches(user, sv, token) = {}
    THEN Append(responses, NewResponse(user, sv))
    ELSE responses

\* UserAnswerViewSet.create, its first half: _validate_answer has returned the
\* 400 response before _get_or_create_user_response can insert a session.
GetOrCreateUserResponse(err, user, sv, token) ==
    IF err = OK /\ GetOrCreateMatches(user, sv, token) = {}
    THEN Append(responses, NewResponse(user, sv))
    ELSE responses

\* A _build_response that sets the cookie on every anonymous submission.
BuildResponse_Always(user, created, ur) ==
    IF user = None THEN ur ELSE NoToken

\* UserAnswerViewSet._build_response: the user_response_uuid cookie the 204
\* response sets, none unless the session is anonymous and was just created.
BuildResponse(user, created, ur) ==
    IF user = None /\ created THEN ur ELSE NoToken

\* UserAnswerViewSet.create: POST of one answer.
CreateUserAnswer(caller, token, sv, q, o, t) ==
    /\ Permitted(caller, "create", sv)
    /\ LET user == EffectiveUser(caller, sv)
           err == UserAnswerChecker(Request(user, sv, q, o, t, token))
           found == GetOrCreateMatches(user, sv, token)
           created == found = {}
           ur == IF created THEN Len(responses) + 1 ELSE Max(found)
       IN /\ responses' = GetOrCreateUserResponse(err, user, sv, token)
          /\ IF err # OK
             THEN /\ resp' = Response("create", err, NoErrors, NoToken)
                  /\ UNCHANGED <<surveys, questions, options, answers, now, calls, history>>
             ELSE IF Cardinality(found) > 1
             THEN /\ resp' = Response("create", ErrServer, NoErrors, NoToken)
                  /\ UNCHANGED <<surveys, questions, options, answers, now, calls, history>>
             ELSE /\ created => Cardinality({i \in DOMAIN responses :
                                                responses[i].survey = sv}) < MaxSessions
                  /\ \E first \in FirstOf(StrategyCandidates(answers, ur, q, o)) :
                        answers' = HandleAnswer(answers, ur, q, o, t, first)
                  /\ CountOf(answers', ur, q) <= MaxRows
                  /\ resp' = Response("create", OK, NoErrors,
                                      BuildResponse(user, created, ur))
                  /\ toggled' = IF questions[q].type = MULTIPLE_CHOICE /\ q \notin retyped
                                THEN (toggled \ {<<ur, q, o>>}) \cup ({<<ur, q, o>>} \ toggled)
                                ELSE toggled
                  /\ lastSub' = IF questions[q].type = SINGLE_CHOICE /\ q \notin retyped
                                THEN Put(lastSub, <<ur, q>>, o)
                                ELSE lastSub
                  /\ UNCHANGED <<surveys, questions, options, now, calls, retyped>>

\* A complete_survey that sets the status and leaves completed_at alone.
CompleteSurveyService_NoStamp(sv, user, token) ==
    LET ur == GetUserResponse(sv, user, token)
    IN [responses EXCEPT ![ur].status = COMPLETED]

\* CompleteSurveyService.complete_survey
CompleteSurveyService(sv, user, token) ==
    LET ur == GetUserResponse(sv, user, token)
    IN [responses EXCEPT ![ur].status = COMPLETED, ![ur].completed_at = now]

\* SurveyViewSet.complete
Complete(caller, token, sv) ==
    /\ Permitted(caller, "complete", sv)
    /\ LET user == EffectiveUser(caller, sv)
           req == Request(user, sv, None, None, None, token)
       IN \E pick \in Picks(sv, user, token) :
            LET err == CompletedSurveyChecker(req, pick)
            IN IF err # OK
               THEN /\ resp' = Response("complete", err,
                                        IF err = ErrAnswers
                                        THEN QuestionErrorMap(req, pick)
                                        ELSE NoErrors,
                                        NoToken)
                    /\ UNCHANGED <<store, now, calls, history>>
               ELSE /\ responses' = CompleteSurveyService(sv, user, token)
                    /\ resp' = Response("complete", OK, NoErrors, NoToken)
                    /\ UNCHANGED <<surveys, questions, options, answers, now, calls, history>>

\* An OwnerCompletedSurveyValidator that checks owners like everyone else.
OwnerCompletedSurveyValidator_Owners(req) ==
    IF req.user # None /\ ~surveys[req.survey].is_anonymous
    THEN CompletedSurveyValidator(req)
    ELSE OK

\* OwnerCompletedSurveyValidator: the completed check, skipped for anonymous
\* surveys and for owners.
OwnerCompletedSurveyValidator(req) ==
    IF /\ req.user # None
       /\ ~surveys[req.survey].is_anonymous
       /\ req.user \notin surveys[req.survey].owners
    THEN CompletedSurveyValidator(req)
    ELSE OK

UserResponseChecker(req) == FirstError(<<OwnerCompletedSurveyValidator(req)>>)

\* CanFinishChecker.check: the session has answers to as many distinct
\* questions as the survey has questions.
CanFinishChecker(ur) ==
    IF ur = NoToken THEN FALSE
    ELSE Cardinality(QuestionsOf(responses[ur].survey))
            = Cardinality({r.q : r \in {x \in DOMAIN answers : x.ur = ur}})

\* IsCompletedChecker.check
IsCompletedChecker(ur) ==
    IF ur = NoToken THEN FALSE ELSE responses[ur].status = COMPLETED

\* SurveySerializer, the fields computed from the caller's session: the
\* context user is request.user, the session is get_user_response's.
SurveySerializer(sv, caller, token) ==
    LET ur == GetUserResponse(sv, caller, token)
    IN [user_response |-> ur,
        is_user_owner |-> caller \in surveys[sv].owners,
        can_finish |-> CanFinishChecker(ur),
        is_completed |-> IsCompletedChecker(ur)]

\* SurveyViewSet.retrieve: GET of one survey.  The checker's request carries
\* no token; the 200 body is the serializer's, the 400 body only the error.
Retrieve(caller, token, sv) ==
    /\ Permitted(caller, "retrieve", sv)
    /\ LET user == EffectiveUser(caller, sv)
           err == UserResponseChecker(Request(user, sv, None, None, None, NoToken))
       IN /\ resp' = [Response("retrieve", err, NoErrors, NoToken) EXCEPT
                        !.data = IF err = OK
                                 THEN SurveySerializer(sv, caller, token)
                                 ELSE NoData]
          /\ UNCHANGED <<store, now, calls, history>>

\* Survey.save: end_date is stamped whenever the saved status is Closed.
SurveySave(s) == IF s.status = CLOSED THEN [s EXCEPT !.end_date = now] ELSE s

\* SurveySerializer.update: the fields the request carries are assigned.
SurveyApply(s, data) ==
    [s EXCEPT !.name = IF data.name = Absent THEN @ ELSE data.name,
              !.status = IF data.status = Absent THEN @ ELSE data.status,
              !.is_anonymous = IF "is_anonymous" \in DOMAIN data
                               THEN data.is_anonymous ELSE @,
              !.end_date = IF "end_date" \in DOMAIN data THEN data.end_date ELSE @,
              !.owners = IF "owner_user_ids" \in DOMAIN data
                         THEN data.owner_user_ids ELSE @]

\* SurveyViewSet.update (PUT / PATCH of a survey)
UpdateSurvey(caller, sv, data) ==
    /\ Permitted(caller, "update", sv)
    /\ LET err == IF data.status = ACTIVE
                  THEN CreateSurveyChecker(Request(caller, sv, None, None, None, NoToken))
                  ELSE OK
       IN IF err # OK
          THEN /\ resp' = Response("update", err, NoErrors, NoToken)
               /\ UNCHANGED <<store, now, calls, history>>
          ELSE /\ surveys' = [surveys EXCEPT ![sv] = SurveySave(SurveyApply(@, data))]
               /\ resp' = Response("update", OK, NoErrors, NoToken)
               /\ UNCHANGED <<questions, options, responses, answers, now, calls, history>>

\* on_delete=CASCADE of UserAnswer.answer_option: the answers that go with
\* deleted options.
CascadeAnswers(B, deleted) ==
    [r \in {x \in DOMAIN B : x.opt \notin deleted} |-> B[r]]

\* QuestionViewSet.perform_update (PUT / PATCH of a question)
UpdateQuestion(caller, q, data) ==
    /\ caller # AnonymousUser
    /\ LET deleted == IF data.type = TEXT THEN OptionsOf(q) ELSE {}
           type == IF data.type = Absent THEN questions[q].type ELSE data.type
       IN /\ options' = [o \in DOMAIN options \ deleted |-> options[o]]
          /\ answers' = CascadeAnswers(answers, deleted)
          /\ questions' = [questions EXCEPT
                             ![q].type = type,
                             ![q].name = IF data.name = Absent THEN @ ELSE data.name]
          /\ retyped' = IF type # questions[q].type THEN retyped \cup {q} ELSE retyped
          /\ toggled' = {x \in toggled : x[3] \notin deleted
                                         /\ (x[2] = q => type = questions[q].type)}
          /\ lastSub' = [k \in {x \in DOMAIN lastSub :
                                   /\ lastSub[x] \notin deleted
                                   /\ (x[2] = q => type = questions[q].type)}
                           |-> lastSub[k]]
          /\ resp' = Response("question_update", OK, NoErrors, NoToken)
          /\ UNCHANGED <<surveys, responses, now, calls>>

\* Time passes between requests.
Tick ==
    /\ now < MaxTime
    /\ now' = now + 1
    /\ UNCHANGED <<store, resp, history, calls>>

----------------------------------------------------------------------------
\* The aggregate statistics of a survey.

ErrNotOwner == "not an owner of the survey"
ErrNoStat == "no statistics for the survey"

Min(S) == CHOOSE x \in S : \A y \in S : x <= y

\* get_survey_stat, its filter: the Answers whose session is a Completed
\* session of the survey.
StatRows(sv) ==
    {r \in DOMAIN answers :
        /\ responses[r.ur].survey = sv
        /\ responses[r.ur].status = COMPLETED}

\* annotate(answer_count=Count("uuid")) of the group (question, option)
AnswerCount(sv, q, o) ==
    SumOver(answers, {r \in StatRows(sv) : r.q = q /\ r.opt = o})

\* A total_count that counts each respondent once.
TotalCount_Respondents(sv, q) ==
    Cardinality({r.ur : r \in {x \in StatRows(sv) : x.q = q}})

\* The Subquery total_counts: Count("uuid") over the Answers to the question.
TotalCount(sv, q) ==
    SumOver(answers, {r \in StatRows(sv) : r.q = q})

\* Round(answer_count * 100.0 / total_count, 2), in hundredths of a percent
\* (the quotient is never half-way between two hundredths for totals
\* under 32).
Percentage(count, total) == (2 * 10000 * count + total) \div (2 * total)

\* One row of the get_survey_stat queryset.
StatItem(sv, q, o) ==
    [question |-> q, answer_option |-> o,
     answer_count |-> AnswerCount(sv, q, o),
     total_count |-> TotalCount(sv, q),
     percentage |-> Percentage(AnswerCount(sv, q, o), TotalCount(sv, q))]

\* order_by("question_id__seq_id", "answer_option__seq_id"): x is not after
\* y; a NULL option sorts first or last, as the database has it.
StatOrder(x, y, nulls_first) ==
    LET qx == questions[x.question].seq_id
        qy == questions[y.question].seq_id
    IN \/ qx < qy
       \/ /\ qx = qy
          /\ IF x.answer_option = None \/ y.answer_option = None
             THEN \/ x.answer_option = y.answer_option
                  \/ (x.answer_option = None) = nulls_first
             ELSE options[x.answer_option].seq_id <= options[y.answer_option].seq_id

\* UserAnswerManager.get_survey_stat: the orders in which the queryset may
\* yield its rows, one per (question, option) with a counted Answer.
GetSurveyStat(sv) ==
    LET items == {StatItem(sv, r.q, r.opt) : r \in StatRows(sv)}
        n == Cardinality(items)
    IN {f \in [1..n -> items] :
          /\ \A i, j \in 1..n : i # j => f[i] # f[j]
          /\ \E nulls_first \in BOOLEAN :
                \A i, j \in 1..n : i < j => StatOrder(f[i], f[j], nulls_first)}

\* OwnerSurveyValidator
OwnerSurveyValidator(req) ==
    IF req.user # None /\ req.user \notin surveys[req.survey].owners
    THEN ErrNotOwner ELSE OK

\* IsSurveyStatValidator
IsSurveyStatValidator(req) ==
    IF StatRows(req.survey) = {} THEN ErrNoStat ELSE OK

SurveyStatChecker(req) ==
    FirstError(<<OwnerSurveyValidator(req), IsSurveyStatValidator(req)>>)

\* stat_survey, answer_data of one row.
AnswerData(item) ==
    [uuid |-> item.answer_option,
     name |-> IF item.answer_option = None THEN None
              ELSE options[item.answer_option].name,
     count |-> item.answer_count,
     percentage |-> item.percentage]

\* stat_survey: the rows appended to the entry survey["questions"][name].
RECURSIVE AnswersNamed(_, _)
AnswersNamed(items, name) ==
    IF items = << >> THEN << >>
    ELSE (IF questions[Head(items).question].name = name
          THEN <<AnswerData(Head(items))>> ELSE << >>)
         \o AnswersNamed(Tail(items), name)

\* stat_survey: the keys of survey["questions"], in insertion order.
RECURSIVE QuestionKeys(_, _)
QuestionKeys(items, seen) ==
    IF items = << >> THEN << >>
    ELSE LET name == questions[Head(items).question].name
         IN (IF name \in seen THEN << >> ELSE <<name>>)
            \o QuestionKeys(Tail(items), seen \cup {name})

\* stat_survey: the entry kept under a question name; uuid, type and
\* total_count are those of the first row with that name, the answers those
\* of every row with that name.
QuestionEntry(items, name) ==
    LET first == items[Min({i \in DOMAIN items :
                               questions[items[i].question].name = name})]
    IN [uuid |-> first.question, name |-> name,
        type |-> questions[first.question].type,
        total_count |-> first.total_count,
        answers |-> AnswersNamed(items, name)]

\* StatSurveyService.stat_survey: rows are grouped under the name of the
\* question's survey, and the first survey of the result is serialized.
StatSurvey(items) ==
    LET SurveyOf(i) == questions[items[i].question].survey
        name == surveys[SurveyOf(1)].name
        mine == {i \in DOMAIN items : surveys[SurveyOf(i)].name = name}
        last == SurveyOf(Max(mine))
        kept == [i \in 1..Cardinality(mine) |->
                    items[CHOOSE k \in mine : Cardinality({j \in mine : j <= k}) = i]]
        keys == QuestionKeys(kept, {})
    IN [uuid |-> last, name |-> name, status |-> surveys[last].status,
        questions |-> [k \in DOMAIN keys |-> QuestionEntry(kept, keys[k])]]

\* AnswerOption.Meta.ordering = ["seq_id"]
RECURSIVE OptionsBySeqId(_)
OptionsBySeqId(S) ==
    IF S = {} THEN << >>
    ELSE LET m == CHOOSE x \in S : \A y \in S : options[x].seq_id <= options[y].seq_id
         IN <<m>> \o OptionsBySeqId(S \ {m})

\* StatSurveyService.add_null_answer_options: the options of the question
\* that no row names are appended with count 0 and percentage 0.0.
AddNullAnswerOptions(survey_stat) ==
    [survey_stat EXCEPT !.questions =
        [k \in DOMAIN @ |->
            LET question == @[k]
                answers_uuid == {question.answers[i].uuid : i \in DOMAIN question.answers}
                                    \ {None}
                rest == OptionsBySeqId(OptionsOf(question.uuid) \ answers_uuid)
            IN [question EXCEPT !.answers =
                   @ \o [i \in DOMAIN rest |->
                           [uuid |-> rest[i], name |-> options[rest[i]].name,
                            count |-> 0, percentage |-> 0]]]]]

\* SurveyViewSet.stat: GET of the aggregate statistics.
Stat(caller, sv) ==
    /\ Permitted(caller, "stat", sv)
    /\ LET err == SurveyStatChecker(Request(caller, sv, None, None, None, NoToken))
       IN IF err # OK
          THEN resp' = Response("stat", err, NoErrors, NoToken)
          ELSE \E items \in GetSurveyStat(sv) :
                  resp' = [Response("stat", OK, NoErrors, NoToken) EXCEPT
                             !.data = AddNullAnswerOptions(StatSurvey(items))]
    /\ UNCHANGED <<store, now, history, calls>>

----------------------------------------------------------------------------
\* The per-respondent statistics of a survey.

\* CustomUser.id, the key the rows are ordered by.
UserId(user) == IF user = "u1" THEN 1 ELSE 2

\* The orders in which the elements of a set may come.
RECURSIVE Perms(_)
Perms(S) ==
    IF S = {} THEN {<< >>}
    ELSE UNION {{<<x>> \o p : p \in Perms(S \ {x})} : x \in S}

\* A get_survey_user_stat that keeps the sessions without a user.
UserStatRows_WithAnonymous(sv) ==
    {r \in DOMAIN answers :
        /\ responses[r.ur].survey = sv
        /\ responses[r.ur].status = COMPLETED}

\* get_survey_user_stat, its filter: the Answers whose session is a Completed
\* session of the survey with a user.
UserStatRows(sv) ==
    {r \in DOMAIN answers :
        /\ responses[r.ur].survey = sv
        /\ responses[r.ur].status = COMPLETED
        /\ responses[r.ur].user # None}

\* order_by("user_response__user_id"): the rows of the users still to come,
\* user after user; the rows of one user tie and come in any order.
RECURSIVE RowsByUser(_, _)
RowsByUser(items, users) ==
    IF users = {} THEN {<< >>}
    ELSE LET u == CHOOSE x \in users : \A y \in users : UserId(x) <= UserId(y)
             mine == {i \in items : responses[i[1].ur].user = u}
         IN {[k \in DOMAIN p |-> p[k][1]] \o rest :
                p \in Perms(mine), rest \in RowsByUser(items, users \ {u})}

\* UserAnswerManager.get_survey_user_stat: the orders in which the queryset
\* may yield its rows, one per Answer.
GetSurveyUserStat(sv) ==
    LET items == UNION {{<<r, k>> : k \in 1..answers[r]} : r \in UserStatRows(sv)}
    IN RowsByUser(items, {responses[r.ur].user : r \in UserStatRows(sv)})

\* stat_user_survey, the answer of one row: the text for a Text question,
\* the option otherwise.
UserAnswerData(r) ==
    IF questions[r.q].type = TEXT
    THEN [uuid |-> None, name |-> r.text]
    ELSE [uuid |-> r.opt,
          name |-> IF r.opt = None THEN None ELSE options[r.opt].name]

\* stat_user_survey: the questions of a user's entry, in the order of their
\* first row.
RECURSIVE UserQuestionKeys(_, _)
UserQuestionKeys(rows, seen) ==
    IF rows = << >> THEN << >>
    ELSE (IF Head(rows).q \in seen THEN << >> ELSE <<Head(rows).q>>)
         \o UserQuestionKeys(Tail(rows), seen \cup {Head(rows).q})

\* stat_user_survey: the answers appended to the entry of question q.
RECURSIVE UserAnswersTo(_, _)
UserAnswersTo(rows, q) ==
    IF rows = << >> THEN << >>
    ELSE (IF Head(rows).q = q THEN <<UserAnswerData(Head(rows))>> ELSE << >>)
         \o UserAnswersTo(Tail(rows), q)

\* stat_user_survey: the entry survey["users"][user_id]; user_completed_at
\* is that of the user's first row.
UserEntry(rows, user) ==
    LET Mine(r) == responses[r.ur].user = user
        mine == SelectSeq(rows, Mine)
        keys == UserQuestionKeys(mine, {})
    IN [uuid |-> user,
        user_completed_at |-> responses[Head(mine).ur].completed_at,
        questions |-> [k \in DOMAIN keys |->
                          [uuid |-> keys[k], name |-> questions[keys[k]].name,
                           type |-> questions[keys[k]].type,
                           answers |-> UserAnswersTo(mine, keys[k])]]]

\* stat_user_survey: the users of the rows, in the order of their first row.
RECURSIVE UserKeys(_, _)
UserKeys(rows, seen) ==
    IF rows = << >> THEN << >>
    ELSE LET user == responses[Head(rows).ur].user
         IN (IF user \in seen THEN << >> ELSE <<user>>)
            \o UserKeys(Tail(rows), seen \cup {user})

\* StatSurveyService.stat_user_survey: without rows only the empty users
\* list, else the survey of the rows with one entry per user.
StatUserSurvey(rows) ==
    IF rows = << >>
    THEN [uuid |-> Absent, name |-> Absent, status |-> Absent, users |-> << >>]
    ELSE LET sv == responses[rows[Len(rows)].ur].survey
             keys == UserKeys(rows, {})
         IN [uuid |-> sv, name |-> surveys[sv].name, status |-> surveys[sv].status,
             users |-> [k \in DOMAIN keys |-> UserEntry(rows, keys[k])]]

\* SurveyViewSet.stat_user: GET of the per-respondent statistics; the body
\* is the statistics with the number of its users.
StatUser(caller, sv) ==
    /\ Permitted(caller, "stat_user", sv)
    /\ LET err == SurveyStatChecker(Request(caller, sv, None, None, None, NoToken))
       IN IF err # OK
          THEN resp' = Response("stat_user", err, NoErrors, NoToken)
          ELSE \E rows \in GetSurveyUserStat(sv) :
                  resp' = [Response("stat_user", OK, NoErrors, NoToken) EXCEPT
                             !.data = StatUserSurvey(rows)]
    /\ UNCHANGED <<store, now, history, calls>>

----------------------------------------------------------------------------
\* Rows of the fixtures.

Survey1(name, anon, status) ==
    [name |-> name, status |-> status, is_anonymous |-> anon,
     owners |-> {"u1"}, end_date |-> NullTime]

Question(sv, seq, type, name) ==
    [survey |-> sv, seq_id |-> seq, type |-> type, name |-> name]

Option(q, seq, name) == [question |-> q, seq_id |-> seq, name |-> name]

NoRequest == Response("none", OK, NoErrors, NoToken)

\* A worker between two requests.
Idle ==
    [pc |-> "idle", caller |-> None, token |-> NoToken, survey |-> None,
     question |-> None, answer_option |-> None, text_answer |-> None,
     user_response |-> NoToken, created |-> FALSE, integrity_error |-> FALSE]

Workers == 1..MaxCalls

NoCalls == [w \in Workers |-> Idle]

NoHistory ==
    /\ toggled = {}
    /\ lastSub = [k \in {} |-> None]
    /\ retyped = {}

----------------------------------------------------------------------------
\* Spec: the session lifecycle.  One survey, anonymous or not, created as a
\* draft (possibly without a name) with a choice question q1 (option a) and
\* a text question q2.  Users publish it and withdraw it to draft again,
\* respondents (two users, or the holders of anonymous tokens) answer and
\* complete, and time passes; requests are handled one at a time.

Init ==
    /\ \E name \in {"", "Survey 1"}, anon \in BOOLEAN :
          surveys = [s \in {"s1"} |-> Survey1(name, anon, DRAFT)]
    /\ \E t1 \in {SINGLE_CHOICE, MULTIPLE_CHOICE} :
          questions = [q \in {"q1", "q2"} |->
                         IF q = "q1"
                         THEN Question("s1", 1, t1, "Question 1")
                         ELSE Question("s1", 2, TEXT, "Question 2")]
    /\ options = [o \in {"a"} |-> Option("q1", 1, "Option 1")]
    /\ responses = << >>
    /\ answers = EmptyAnswers
    /\ now = 1
    /\ resp = NoRequest
    /\ NoHistory
    /\ calls = NoCalls

\* Who sends requests about a survey: every caller without a cookie, and
\* callers whose user_response_uuid cookie names one of the sessions, the
\* unauthenticated visitors of an anonymous survey and the users of another.
Visitors(sv) ==
    {<<c, NoToken>> : c \in Callers}
    \cup {<<c, tk>> : c \in (IF surveys[sv].is_anonymous THEN {AnonymousUser} ELSE Users),
                      tk \in DOMAIN responses}

SubmitStep ==
    \E sv \in DOMAIN surveys, q \in DOMAIN questions,
       o \in DOMAIN options \cup {None}, t \in {None, "x"} :
        \E v \in Visitors(sv) :
            CreateUserAnswer(v[1], v[2], sv, q, o, t)

CompleteStep ==
    \E sv \in DOMAIN surveys :
        \E v \in Visitors(sv) :
            Complete(v[1], v[2], sv)

UpdateSurveyStep ==
    \E caller \in Callers, sv \in DOMAIN surveys, st \in {ACTIVE, DRAFT} :
        UpdateSurvey(caller, sv, [name |-> Absent, status |-> st])

RetrieveStep ==
    \E sv \in DOMAIN surveys :
        \E v \in Visitors(sv) :
            Retrieve(v[1], v[2], sv)

Next ==
    \/ SubmitStep
    \/ CompleteStep
    \/ RetrieveStep
    \/ UpdateSurveyStep
    \/ Tick

Spec == Init /\ [][Next]_vars

----------------------------------------------------------------------------
\* SpecAnswers: the answer engine.  A published, non-anonymous survey s1 with
\* the one question q1 (options a, b), and question q2 (option c) of another
\* survey s2, each question of any type; respondent u1 answers q1 with any
\* option or text and completes s1, while editors change the types of the
\* questions and withdraw and republish the survey.

InitAnswers ==
    /\ surveys = [s \in {"s1", "s2"} |-> Survey1("Survey", FALSE, ACTIVE)]
    /\ \E t1 \in QuestionType, t2 \in QuestionType :
          questions = [q \in {"q1", "q2"} |->
                         IF q = "q1"
                         THEN Question("s1", 1, t1, "Question 1")
                         ELSE Question("s2", 1, t2, "Question 1")]
    /\ options = [o \in {"a", "b", "c"} |->
                    CASE o = "a" -> Option("q1", 1, "Option 1")
                      [] o = "b" -> Option("q1", 2, "Option 2")
                      [] o = "c" -> Option("q2", 1, "Option 1")]
    /\ responses = << >>
    /\ answers = EmptyAnswers
    /\ now = 1
    /\ resp = NoRequest
    /\ NoHistory
    /\ calls = NoCalls

\* The text_answer values of the requests: absent, empty, two texts.
Texts == {None, "", "x", "y"}

AnswerStep ==
    \E o \in DOMAIN options \cup {None}, t \in Texts :
        CreateUserAnswer("u1", NoToken, "s1", "q1", o, t)

StatusStep ==
    \E st \in {ACTIVE, DRAFT} :
        UpdateSurvey("u1", "s1", [name |-> Absent, status |-> st])

RetypeStep ==
    \E q \in DOMAIN questions, ty \in QuestionType :
        UpdateQuestion("u1", q, [type |-> ty, name |-> Absent])

FinishStep == Complete("u1", NoToken, "s1")

NextAnswers ==
    \/ AnswerStep
    \/ RetypeStep
    \/ FinishStep
    \/ StatusStep

SpecAnswers == InitAnswers /\ [][NextAnswers]_vars

----------------------------------------------------------------------------
\* SpecPublish: the publish gate.  A draft survey s1 of any shape: with or
\* without a name, with none, one or both of the questions q1 and q2, named
\* or not, alike or not, of any type, with or without options (a and b of
\* q1, c of q2), named or not, alike or not.  Users update its name and
\* status.

InitPublish ==
    /\ \E name \in {"", "Survey"} :
          surveys = [s \in {"s1"} |-> Survey1(name, FALSE, DRAFT)]
    /\ \E Qs \in SUBSET {"q1", "q2"} :
       \E n1 \in {"", "A"}, n2 \in {"A", "B"},
          t1 \in QuestionType, t2 \in {TEXT, SINGLE_CHOICE} :
          LET row(q) == IF q = "q1" THEN Question("s1", 1, t1, n1)
                                    ELSE Question("s1", 2, t2, n2)
          IN questions = [q \in Qs |-> row(q)]
    /\ \E Os \in SUBSET {"a", "b", "c"} :
       \E na \in {"", "X"}, nb \in {"X", "Y"}, nc \in {"", "X"} :
          LET row(o) == CASE o = "a" -> Option("q1", 1, na)
                          [] o = "b" -> Option("q1", 2, nb)
                          [] o = "c" -> Option("q2", 1, nc)
          IN /\ \A o \in Os : row(o).question \in DOMAIN questions
             /\ options = [o \in Os |-> row(o)]
    /\ responses = << >>
    /\ answers = EmptyAnswers
    /\ now = 1
    /\ resp = NoRequest
    /\ NoHistory
    /\ calls = NoCalls

\* The status and name values of the update requests.
StatusData == SurveyStatus \cup {Absent}
NameData == {Absent, "", "Survey"}

UpdateStep ==
    \E caller \in Users, st \in StatusData, name \in NameData :
        UpdateSurvey(caller, "s1", [name |-> name, status |-> st])

NextPublish == UpdateStep

SpecPublish == InitPublish /\ [][NextPublish]_vars

----------------------------------------------------------------------------
\* SpecRace: requests handled at the same time.  Nothing in create or
\* complete opens a transaction or takes a lock, so between any two of a
\* handler's queries the other workers' queries may run.  A handler is cut
\* where it goes from reading to writing: the validator pipeline, the get
\* and the create of get_or_create, the answer strategy and the stamp of
\* complete_survey are one step each.  User u1 sends submit-answer and
\* complete requests about an Active, non-anonymous survey with one
\* question to MaxCalls workers, and time passes.

\* A UNIQUE (survey_id, user_id) constraint that is never violated.
UniqueTogether_Off(user, sv) == FALSE

\* unique_together {("survey", "user")} of userresponse: the insert of a
\* second row for the survey and the user raises IntegrityError (rows with
\* a NULL user never collide).
UniqueTogether(user, sv) ==
    /\ user # None
    /\ \E i \in DOMAIN responses :
          responses[i].survey = sv /\ responses[i].user = user

Reply(w, r) ==
    /\ resp' = r
    /\ calls' = [calls EXCEPT ![w] = Idle]

\* UserAnswerViewSet.create up to _validate_answer.
ValidateAnswer(w, caller, token, sv, q, o, t) ==
    /\ calls[w].pc = "idle"
    /\ Permitted(caller, "create", sv)
    /\ LET err == UserAnswerChecker(Request(EffectiveUser(caller, sv), sv, q, o, t, token))
       IN IF err # OK
          THEN Reply(w, Response("create", err, NoErrors, NoToken))
          ELSE /\ calls' = [calls EXCEPT ![w] =
                              [Idle EXCEPT !.pc = "get", !.caller = caller,
                                           !.token = token, !.survey = sv,
                                           !.question = q, !.answer_option = o,
                                           !.text_answer = t]]
               /\ UNCHANGED resp
    /\ UNCHANGED <<store, now, history>>

\* get_or_create, its get(): the session is found, or is to be created;
\* several rows raise MultipleObjectsReturned.
GetUserResponseRow(w) ==
    /\ calls[w].pc = "get"
    /\ LET c == calls[w]
           found == GetOrCreateMatches(EffectiveUser(c.caller, c.survey), c.survey, c.token)
       IN IF Cardinality(found) > 1
          THEN Reply(w, Response("create", ErrServer, NoErrors, NoToken))
          ELSE /\ calls' = [calls EXCEPT ![w] =
                              IF found = {}
                              THEN [c EXCEPT !.pc = "create"]
                              ELSE [c EXCEPT !.pc = "handle",
                                             !.user_response = Max(found)]]
               /\ UNCHANGED resp
    /\ UNCHANGED <<store, now, history>>

\* get_or_create, its create(): the row is inserted, or the insert raises
\* IntegrityError and the row that is there is fetched instead.
CreateUserResponseRow(w) ==
    /\ calls[w].pc = "create"
    /\ LET c == calls[w]
           user == EffectiveUser(c.caller, c.survey)
       IN IF UniqueTogether(user, c.survey)
          THEN /\ calls' = [calls EXCEPT ![w] =
                              [c EXCEPT !.pc = "handle",
                                        !.integrity_error = TRUE,
                                        !.user_response =
                                            Max(GetOrCreateMatches(user, c.survey, c.token))]]
               /\ UNCHANGED responses
          ELSE /\ responses' = Append(responses, NewResponse(user, c.survey))
               /\ calls' = [calls EXCEPT ![w] =
                              [c EXCEPT !.pc = "handle", !.created = TRUE,
                                        !.user_response = Len(responses) + 1]]
    /\ UNCHANGED <<surveys, questions, options, answers, now, resp, history>>

\* UserAnswerViewSet._handle_answer and _build_response.
HandleAnswerCall(w) ==
    /\ calls[w].pc = "handle"
    /\ LET c == calls[w]
       IN /\ \E first \in FirstOf(StrategyCandidates(answers, c.user_response,
                                                   c.question, c.answer_option)) :
                answers' = HandleAnswer(answers, c.user_response, c.question,
                                        c.answer_option, c.text_answer, first)
          /\ Reply(w, Response("create", OK, NoErrors,
                               BuildResponse(EffectiveUser(c.caller, c.survey),
                                             c.created, c.user_response)))
    /\ UNCHANGED <<surveys, questions, options, responses, now, history>>

\* SurveyViewSet.complete up to checker.validate.
ValidateCompletion(w, caller, token, sv) ==
    /\ calls[w].pc = "idle"
    /\ Permitted(caller, "complete", sv)
    /\ LET user == EffectiveUser(caller, sv)
           req == Request(user, sv, None, None, None, token)
       IN \E pick \in Picks(sv, user, token) :
            LET err == CompletedSurveyChecker(req, pick)
            IN IF err # OK
               THEN Reply(w, Response("complete", err,
                                      IF err = ErrAnswers
                                      THEN QuestionErrorMap(req, pick)
                                      ELSE NoErrors,
                                      NoToken))
               ELSE /\ calls' = [calls EXCEPT ![w] =
                                   [Idle EXCEPT !.pc = "complete", !.caller = caller,
                                                !.token = token, !.survey = sv]]
                    /\ UNCHANGED resp
    /\ UNCHANGED <<store, now, history>>

\* SurveyViewSet.complete from CompleteSurveyService.complete_survey on.
CompleteSurveyCall(w) ==
    /\ calls[w].pc = "complete"
    /\ LET c == calls[w]
       IN /\ responses' = CompleteSurveyService(c.survey, EffectiveUser(c.caller, c.survey),
                                                c.token)
          /\ Reply(w, Response("complete", OK, NoErrors, NoToken))
    /\ UNCHANGED <<surveys, questions, options, answers, now, history>>

InitRace ==
    /\ surveys = [s \in {"s1"} |-> Survey1("Survey", FALSE, ACTIVE)]
    /\ \E t1 \in QuestionType :
          questions = [q \in {"q1"} |-> Question("s1", 1, t1, "Question 1")]
    /\ options = [o \in {"a"} |-> Option("q1", 1, "Option 1")]
    /\ responses = << >>
    /\ answers = EmptyAnswers
    /\ now = 1
    /\ resp = NoRequest
    /\ NoHistory
    /\ calls = NoCalls

SubmitBegin ==
    \E w \in Workers, o \in DOMAIN options \cup {None}, t \in {None, "x"} :
        ValidateAnswer(w, "u1", NoToken, "s1", "q1", o, t)

SubmitGet == \E w \in Workers : GetUserResponseRow(w)

SubmitCreate == \E w \in Workers : CreateUserResponseRow(w)

SubmitHandle == \E w \in Workers : HandleAnswerCall(w)

CompleteBegin == \E w \in Workers : ValidateCompletion(w, "u1", NoToken, "s1")

CompleteEnd == \E w \in Workers : CompleteSurveyCall(w)

NextRace ==
    \/ SubmitBegin
    \/ SubmitGet
    \/ SubmitCreate
    \/ SubmitHandle
    \/ CompleteBegin
    \/ CompleteEnd
    \/ Tick

SpecRace == InitRace /\ [][NextRace]_vars

----------------------------------------------------------------------------
\* SpecStat: the statistics.  An Active survey of u1 has the MultipleChoice
\* question q1 "A" (options a, b) and the Text question q2 "B".  Users answer
\* and complete it, an editor renames questions, and callers ask for the
\* statistics; requests are handled one at a time.

InitStat ==
    /\ surveys = [s \in {"s1"} |-> Survey1("Survey", FALSE, ACTIVE)]
    /\ questions = [q \in {"q1", "q2"} |->
                      IF q = "q1"
                      THEN Question("s1", 1, MULTIPLE_CHOICE, "A")
                      ELSE Question("s1", 2, TEXT, "B")]
    /\ options = [o \in {"a", "b"} |->
                    IF o = "a" THEN Option("q1", 1, "X") ELSE Option("q1", 2, "Y")]
    /\ responses = << >>
    /\ answers = EmptyAnswers
    /\ now = 1
    /\ resp = NoRequest
    /\ NoHistory
    /\ calls = NoCalls

StatSubmitStep ==
    \E caller \in Users, q \in DOMAIN questions,
       o \in DOMAIN options \cup {None}, t \in {None, "x"} :
        CreateUserAnswer(caller, NoToken, "s1", q, o, t)

StatCompleteStep == \E caller \in Users : Complete(caller, NoToken, "s1")

RenameStep ==
    \E q \in DOMAIN questions, name \in {"A", "B"} :
        UpdateQuestion("u1", q, [type |-> Absent, name |-> name])

StatStep == \E caller \in Callers : Stat(caller, "s1")

NextStat ==
    \/ StatSubmitStep
    \/ StatCompleteStep
    \/ RenameStep
    \/ StatStep

SpecStat == InitStat /\ [][NextStat]_vars

----------------------------------------------------------------------------
\* SpecUserStat: the per-respondent statistics.  An Active survey of u1,
\* anonymous or not, has the one question q1, MultipleChoice or Text, with
\* the options a and b.  Users and the holders of anonymous tokens answer
\* and complete it, the owner switches the survey between anonymous and
\* not, and callers ask for the per-respondent statistics; requests are
\* handled one at a time.

InitUserStat ==
    /\ \E anon \in BOOLEAN :
          surveys = [s \in {"s1"} |-> Survey1("Survey", anon, ACTIVE)]
    /\ \E t1 \in {MULTIPLE_CHOICE, TEXT} :
          questions = [q \in {"q1"} |-> Question("s1", 1, t1, "A")]
    /\ options = [o \in {"a", "b"} |->
                    IF o = "a" THEN Option("q1", 1, "X") ELSE Option("q1", 2, "Y")]
    /\ responses = << >>
    /\ answers = EmptyAnswers
    /\ now = 1
    /\ resp = NoRequest
    /\ NoHistory
    /\ calls = NoCalls

UserStatSubmitStep ==
    \E o \in DOMAIN options \cup {None}, t \in {None, "x"} :
        \E v \in Visitors("s1") :
            CreateUserAnswer(v[1], v[2], "s1", "q1", o, t)

UserStatCompleteStep == \E v \in Visitors("s1") : Complete(v[1], v[2], "s1")

AnonymityStep ==
    \E anon \in BOOLEAN :
        UpdateSurvey("u1", "s1", [name |-> Absent, status |-> Absent,
                                  is_anonymous |-> anon])

StatUserStep == \E caller \in Callers : StatUser(caller, "s1")

NextUserStat ==
    \/ UserStatSubmitStep
    \/ UserStatCompleteStep
    \/ AnonymityStep
    \/ StatUserStep

SpecUserStat == InitUserStat /\ [][NextUserStat]_vars

----------------------------------------------------------------------------
\* SpecClose: the life of a survey.  A draft survey s1, named or not, with
\* the choice question q1 (option a) and the text question q2.  Users,
\* owners of the survey or not, update its name, its status and its
\* end_date and the types of its questions, and time passes.

InitClose ==
    /\ \E name \in {"", "Survey"} :
          surveys = [s \in {"s1"} |-> Survey1(name, FALSE, DRAFT)]
    /\ \E t1 \in {SINGLE_CHOICE, MULTIPLE_CHOICE} :
          questions = [q \in {"q1", "q2"} |->
                         IF q = "q1"
                         THEN Question("s1", 1, t1, "Question 1")
                         ELSE Question("s1", 2, TEXT, "Question 2")]
    /\ options = [o \in {"a"} |-> Option("q1", 1, "Option 1")]
    /\ responses = << >>
    /\ answers = EmptyAnswers
    /\ now = 1
    /\ resp = NoRequest
    /\ NoHistory
    /\ calls = NoCalls

SaveStep ==
    \E caller \in Users, st \in StatusData, name \in NameData :
        UpdateSurvey(caller, "s1", [name |-> name, status |-> st])

EndDateStep ==
    \E caller \in Users, date \in 0..MaxTime :
        UpdateSurvey(caller, "s1", [name |-> Absent, status |-> Absent,
                                    end_date |-> date])

EditQuestionStep ==
    \E caller \in Users, q \in DOMAIN questions, ty \in QuestionType :
        UpdateQuestion(caller, q, [type |-> ty, name |-> Absent])

NextClose ==
    \/ SaveStep
    \/ EndDateStep
    \/ EditQuestionStep
    \/ Tick

SpecClose == InitClose /\ [][NextClose]_vars

----------------------------------------------------------------------------
\* SpecCross: two surveys.  The Active, non-anonymous surveys s1 and s2 have
\* one question each, q1 (option a) and q2 (option c), SingleChoice or
\* Text.  Users submit answers naming any survey with any question and any
\* option, complete the surveys and retrieve them; requests are handled one
\* at a time.

InitCross ==
    /\ surveys = [s \in {"s1", "s2"} |-> Survey1("Survey", FALSE, ACTIVE)]
    /\ \E t1 \in {SINGLE_CHOICE, TEXT}, t2 \in {SINGLE_CHOICE, TEXT} :
          questions = [q \in {"q1", "q2"} |->
                         IF q = "q1"
                         THEN Question("s1", 1, t1, "Question 1")
                         ELSE Question("s2", 1, t2, "Question 1")]
    /\ options = [o \in {"a", "c"} |->
                    IF o = "a" THEN Option("q1", 1, "Option 1")
                               ELSE Option("q2", 1, "Option 1")]
    /\ responses = << >>
    /\ answers = EmptyAnswers
    /\ now = 1
    /\ resp = NoRequest
    /\ NoHistory
    /\ calls = NoCalls

CrossSubmitStep ==
    \E caller \in Users, sv \in DOMAIN surveys, q \in DOMAIN questions,
       o \in DOMAIN options \cup {None}, t \in {None, "x"} :
        CreateUserAnswer(caller, NoToken, sv, q, o, t)

CrossCompleteStep ==
    \E caller \in Users, sv \in DOMAIN surveys : Complete(caller, NoToken, sv)

CrossRetrieveStep ==
    \E caller \in Users, sv \in DOMAIN surveys : Retrieve(caller, NoToken, sv)

NextCross ==
    \/ CrossSubmitStep
    \/ CrossCompleteStep
    \/ CrossRetrieveStep

SpecCross == InitCross /\ [][NextCross]_vars

----------------------------------------------------------------------------
\* SpecOrder: the order of the checks.  A draft, non-anonymous survey s1 of
\* u1, named or not, has the one question q1, SingleChoice or Text, named or
\* not, with the option a, named or not.  The owner publishes the survey and
\* withdraws it, answers q1 with any option or text and completes the
\* survey, and users ask for the statistics; requests are handled one at a
\* time.

InitOrder ==
    /\ \E name \in {"", "Survey"} :
          surveys = [s \in {"s1"} |-> Survey1(name, FALSE, DRAFT)]
    /\ \E t1 \in {SINGLE_CHOICE, TEXT}, n1 \in {"", "A"} :
          questions = [q \in {"q1"} |-> Question("s1", 1, t1, n1)]
    /\ \E na \in {"", "X"} :
          options = [o \in {"a"} |-> Option("q1", 1, na)]
    /\ responses = << >>
    /\ answers = EmptyAnswers
    /\ now = 1
    /\ resp = NoRequest
    /\ NoHistory
    /\ calls = NoCalls

OrderSubmitStep ==
    \E o \in DOMAIN options \cup {None}, t \in {None, "x"} :
        CreateUserAnswer("u1", NoToken, "s1", "q1", o, t)

OrderCompleteStep == Complete("u1", NoToken, "s1")

OrderPublishStep ==
    \E st \in {ACTIVE, DRAFT} :
        UpdateSurvey("u1", "s1", [name |-> Absent, status |-> st])

OrderStatStep == \E caller \in Users : Stat(caller, "s1")

NextOrder ==
    \/ OrderSubmitStep
    \/ OrderCompleteStep
    \/ OrderPublishStep
    \/ OrderStatStep

SpecOrder == InitOrder /\ [][NextOrder]_vars

----------------------------------------------------------------------------
\* SpecIsolation: respondents side by side.  Survey s1 (MultipleChoice
\* question q1, option a) is answered by the users, the anonymous survey s2
\* (Text question q2) by the holders of its tokens; both are Active.  The
\* respondents answer and complete them; requests are handled one at a time.

InitIsolation ==
    /\ surveys = [s \in {"s1", "s2"} |-> Survey1("Survey", s = "s2", ACTIVE)]
    /\ questions = [q \in {"q1", "q2"} |->
                      IF q = "q1"
                      THEN Question("s1", 1, MULTIPLE_CHOICE, "Question 1")
                      ELSE Question("s2", 1, TEXT, "Question 1")]
    /\ options = [o \in {"a"} |-> Option("q1", 1, "Option 1")]
    /\ responses = << >>
    /\ answers = EmptyAnswers
    /\ now = 1
    /\ resp = NoRequest
    /\ NoHistory
    /\ calls = NoCalls

\* The answers the respondents send: an option or a text.
Sent == {<<"a", None>>, <<None, "x">>}

\* The respondents of a survey: the holders of the tokens issued so far, or
\* of none, on an anonymous survey, the users otherwise.
RespondentsOf(sv) ==
    IF surveys[sv].is_anonymous
    THEN {<<AnonymousUser, tk>> : tk \in {NoToken} \cup DOMAIN responses}
    ELSE {<<u, NoToken>> : u \in Users}

IsolationSubmitStep ==
    \E sv \in DOMAIN surveys, a \in Sent :
        \E q \in QuestionsOf(sv), v \in RespondentsOf(sv) :
            CreateUserAnswer(v[1], v[2], sv, q, a[1], a[2])

IsolationCompleteStep ==
    \E sv \in DOMAIN surveys :
        \E v \in RespondentsOf(sv) :
            Complete(v[1], v[2], sv)

NextIsolation ==
    \/ IsolationSubmitStep
    \/ IsolationCompleteStep
    \/ Tick

SpecIsolation == InitIsolation /\ [][NextIsolation]_vars

----------------------------------------------------------------------------
\* Properties of the answer engine (checked under SpecAnswers).

\* u1's session in SpecAnswers: the first UserResponse row.
U1 == 1

\* C1: for a question that has been MultipleChoice throughout and one
\* session, after any sequence of accepted submissions an Answer for option O
\* exists (exactly one row) iff O was accepted an odd number of times; as this
\* holds for every option at once, a submission of O has not created, changed
\* or deleted the Answer of another option.
C1_MultipleChoiceToggle ==
    \A ur \in DOMAIN responses, q \in DOMAIN questions :
        (questions[q].type = MULTIPLE_CHOICE /\ q \notin retyped) =>
            \A o \in DOMAIN options \cup {None} :
                LET rows == {r \in RowsOf(answers, ur, q) : r.opt = o}
                IN IF <<ur, q, o>> \in toggled
                   THEN /\ rows = {NewAnswer(ur, q, o, None)}
                        /\ answers[NewAnswer(ur, q, o, None)] = 1
                   ELSE rows = {}

\* An accepted submission has just removed the last Answer of the
\* MultipleChoice question q1: every option was submitted an even number of
\* times, one of them at least twice.
C1_Witness ==
    /\ questions["q1"].type = MULTIPLE_CHOICE /\ "q1" \notin retyped
    /\ resp.op = "create" /\ resp.err = OK
    /\ Len(responses) = 1
    /\ toggled = {}
    /\ RowsOf(answers, U1, "q1") = {}

\* C2: for a SingleChoice question whose type is not changed, after any
\* non-empty sequence of accepted submissions by one session exactly one
\* Answer exists for (session, question), and it references the option of the
\* last submission (so also after the same option twice in a row).
C2_SingleChoiceLast ==
    \A ur \in DOMAIN responses, q \in DOMAIN questions :
        (/\ questions[q].type = SINGLE_CHOICE
         /\ q \notin retyped
         /\ <<ur, q>> \in DOMAIN lastSub) =>
            /\ RowsOf(answers, ur, q) = {NewAnswer(ur, q, lastSub[<<ur, q>>], None)}
            /\ CountOf(answers, ur, q) = 1

C2_Witness ==
    /\ questions["q1"].type = SINGLE_CHOICE /\ "q1" \notin retyped
    /\ resp.op = "create" /\ resp.err = OK
    /\ <<U1, "q1">> \in DOMAIN lastSub
    /\ lastSub[<<U1, "q1">>] = "b"
    /\ RowsOf(answers, U1, "q1") = {NewAnswer(U1, "q1", "b", None)}

\* C3: an accepted submission to a Text question with non-empty text creates
\* the Answer when the session has none and otherwise overwrites the text of
\* an existing Answer, the number of rows staying the same; with empty or
\* absent text it deletes an existing Answer and changes nothing when there
\* is none, so that a session that had at most one Answer for the question
\* (the existing Answer) has none afterwards.
C3_TextReplace ==
    [][(resp'.op = "create" /\ resp'.err = OK /\ questions["q1"].type = TEXT) =>
        \A t \in Texts :
            CreateUserAnswer("u1", NoToken, "s1", "q1", None, t) =>
                LET old == RowsOf(answers, U1, "q1")
                    n == CountOf(answers, U1, "q1")
                    m == CountOf(answers', U1, "q1")
                IN IF Truthy(t)
                   THEN IF n = 0
                        THEN answers' = AddRow(answers, NewAnswer(U1, "q1", None, t))
                        ELSE /\ m = n
                             /\ \E r \in old :
                                   answers' = AddRow(DelRow(answers, r),
                                                     [r EXCEPT !.text = t])
                   ELSE IF n = 0
                        THEN answers' = answers
                        ELSE /\ m = n - 1
                             /\ \E r \in old : answers' = DelRow(answers, r)
                             /\ n = 1 => RowsOf(answers', U1, "q1") = {}]_vars

\* An accepted submission of the text y has left the session with exactly one
\* Answer for the Text question q1, holding y.
C3_Witness ==
    /\ questions["q1"].type = TEXT /\ "q1" \notin retyped
    /\ resp.op = "create" /\ resp.err = OK
    /\ RowsOf(answers, U1, "q1") = {NewAnswer(U1, "q1", None, "y")}
    /\ answers[NewAnswer(U1, "q1", None, "y")] = 1

\* C5: a submit-answer request naming an existing survey, question and option
\* is accepted, and the strategy of the question's type applied to the
\* session's answers, iff the survey is Active, the answer has the shape of
\* the question type (no option on a Text question, no text on another) and
\* the caller's session for the survey is absent or InProgress.
C5_AcceptedIff ==
    [][resp'.op = "create" =>
        \A o \in DOMAIN options \cup {None}, t \in Texts :
            CreateUserAnswer("u1", NoToken, "s1", "q1", o, t) =>
                LET ur == GetUserResponse("s1", "u1", NoToken)
                    active == surveys["s1"].status = ACTIVE
                    shape == IF questions["q1"].type = TEXT
                             THEN ~Truthy(o) ELSE ~Truthy(t)
                    session == ur = NoToken \/ responses[ur].status = IN_PROGRESS
                IN /\ (resp'.err = OK) <=> (active /\ shape /\ session)
                   /\ resp'.err = OK =>
                        \E first \in FirstOf(StrategyCandidates(answers, U1, "q1", o)) :
                            answers' = HandleAnswer(answers, U1, "q1", o, t, first)
                   /\ resp'.err # OK => answers' = answers]_vars

\* A submission that meets the three conditions has been accepted and has
\* stored an Answer while the survey is Active and the session InProgress.
C5_Witness ==
    /\ resp.op = "create" /\ resp.err = OK
    /\ surveys["s1"].status = ACTIVE
    /\ Len(responses) = 1 /\ responses[U1].status = IN_PROGRESS
    /\ RowsOf(answers, U1, "q1") # {}

\* C8: the per-question sufficiency check of the completion pipeline passes
\* for a question exactly when the respondent has, for a Text question,
\* exactly one Answer and its text is non-empty; for a SingleChoice question,
\* exactly one Answer; for a MultipleChoice question, at least one Answer.
C8_Sufficiency ==
    \A sv \in DOMAIN surveys, user \in Users :
        \A q \in QuestionsOf(sv), pick \in Picks(sv, user, NoToken) :
            LET rows == PrefetchedAnswers(q, user, NoToken)
                n == SumOver(answers, rows)
            IN (QuestionCheck(q, user, NoToken, pick) = OK) <=>
                  CASE questions[q].type = TEXT ->
                         n = 1 /\ \A r \in rows : Truthy(r.text)
                    [] questions[q].type = SINGLE_CHOICE -> n = 1
                    [] questions[q].type = MULTIPLE_CHOICE -> n >= 1

\* C14: in every reachable state each session has at most one Answer per
\* question for SingleChoice and Text questions, and at most one Answer per
\* (question, option) for MultipleChoice questions.
C14_AtMostOneAnswer ==
    \A ur \in DOMAIN responses, q \in DOMAIN questions :
        IF questions[q].type = MULTIPLE_CHOICE
        THEN \A r \in RowsOf(answers, ur, q) : answers[r] <= 1
        ELSE CountOf(answers, ur, q) <= 1

\* C28: in every reachable state every stored Answer to a SingleChoice or
\* MultipleChoice question references an answer option: no accepted
\* submit-answer request, one with neither option nor text included, stores
\* a choice Answer without an option.
C28_ChoiceAnswerHasOption ==
    \A r \in DOMAIN answers :
        questions[r.q].type \in {SINGLE_CHOICE, MULTIPLE_CHOICE} => r.opt # None

\* C29: in every reachable state every stored Answer that references an
\* answer option references an option of the Answer's own question: a
\* submit-answer request that pairs a question with an option of another
\* question is never stored.
C29_OptionOfQuestion ==
    \A r \in DOMAIN answers :
        r.opt # None => options[r.opt].question = r.q

----------------------------------------------------------------------------
\* Properties of the session lifecycle (checked under Spec).

\* The caller's sessions for a survey: the session of the token on an
\* anonymous survey, the sessions of the user otherwise.
SessionsOf(sv, caller, token) ==
    {i \in DOMAIN responses :
        /\ responses[i].survey = sv
        /\ IF surveys[sv].is_anonymous THEN i = token ELSE responses[i].user = caller}

\* Every question of the survey passes its sufficiency check.
AllSufficient(sv, user, token, pick) ==
    \A q \in QuestionsOf(sv) : QuestionCheck(q, user, token, pick) = OK

\* C4: a complete request of a caller whose session is already Completed is
\* answered with the already-completed error and leaves the sessions, so
\* that session's status and completed_at, as they were.
C4_CompletedRejected ==
    [][resp'.op = "complete" =>
        \A sv \in DOMAIN surveys : \A v \in Visitors(sv) :
            (/\ \E i \in SessionsOf(sv, v[1], v[2]) : responses[i].status = COMPLETED
             /\ Complete(v[1], v[2], sv)) =>
                /\ resp'.err = ErrCompleted
                /\ responses' = responses]_vars

\* A complete request has been rejected as already completed after time has
\* passed since the completion, and completed_at is still the earlier time.
C4_Witness ==
    /\ resp.op = "complete" /\ resp.err = ErrCompleted
    /\ \E i \in DOMAIN responses :
          responses[i].status = COMPLETED /\ responses[i].completed_at < now

\* C6: a submit-answer, complete or update request that its validator
\* pipeline rejects changes no row of any table: no session is created, no
\* Answer created, changed or deleted, no session's status or completed_at
\* and no field of the survey changed.
C6_RejectedMutatesNothing ==
    [][(resp'.op \in {"create", "complete", "update"} /\ resp'.err # OK) =>
        UNCHANGED store]_vars

\* A submit-answer of a caller without a session has been rejected because
\* the survey is not active, and no session exists.
C6_Witness ==
    /\ resp.op = "create" /\ resp.err = ErrNotActive
    /\ responses = << >>

\* C7: when a complete request gets past the already-completed and
\* not-started validators, the response's question-error map has an entry
\* for exactly the questions of the survey that fail their sufficiency check
\* for this respondent, whatever their order, keyed by the question's id, and
\* the request fails iff there is such a question.
C7_ErrorMap ==
    [][resp'.op = "complete" =>
        \A sv \in DOMAIN surveys : \A v \in Visitors(sv) :
            LET user == EffectiveUser(v[1], sv)
                req == Request(user, sv, None, None, None, v[2])
            IN (/\ CompletedSurveyValidator(req) = OK
                /\ SurveyNotStartedValidator(req) = OK
                /\ Complete(v[1], v[2], sv)) =>
                   \E pick \in Picks(sv, user, v[2]) :
                       LET bad == {q \in QuestionsOf(sv) :
                                      QuestionCheck(q, user, v[2], pick) # OK}
                       IN /\ (resp'.err # OK) <=> (bad # {})
                          /\ resp'.err # OK => resp'.err = ErrAnswers
                          /\ DOMAIN resp'.questions_error_map = bad
                          /\ \A q \in bad :
                                resp'.questions_error_map[q]
                                   = QuestionCheck(q, user, v[2], pick)]_vars

\* Of the two questions one is answered: the complete request has failed
\* with a map of exactly one entry, for the unanswered question q2.
C7_Witness ==
    /\ resp.op = "complete" /\ resp.err = ErrAnswers
    /\ DOMAIN resp.questions_error_map = {"q2"}
    /\ \E r \in DOMAIN answers : r.q = "q1"

\* C9: a complete request succeeds iff the caller has a session for the
\* survey, that session is InProgress and every question of the survey
\* passes its sufficiency check; on success exactly that session becomes
\* Completed with completed_at the current time; without a session it fails
\* with the not-started error and no session is created.
C9_CompleteIff ==
    [][resp'.op = "complete" =>
        \A sv \in DOMAIN surveys : \A v \in Visitors(sv) :
            Complete(v[1], v[2], sv) =>
                LET user == EffectiveUser(v[1], sv)
                    mine == SessionsOf(sv, v[1], v[2])
                IN /\ (resp'.err = OK) <=>
                         /\ \E i \in mine : responses[i].status = IN_PROGRESS
                         /\ \E pick \in Picks(sv, user, v[2]) :
                               AllSufficient(sv, user, v[2], pick)
                   /\ resp'.err = OK =>
                         \E i \in mine :
                            responses' = [responses EXCEPT
                                            ![i].status = COMPLETED,
                                            ![i].completed_at = now]
                   /\ mine = {} =>
                         resp'.err = ErrNotStarted /\ responses' = responses]_vars

\* A complete request has just succeeded at time 2: the session is Completed
\* and its completed_at is the current time.
C9_Witness ==
    /\ resp.op = "complete" /\ resp.err = OK
    /\ now = 2
    /\ \E i \in DOMAIN responses :
          responses[i].status = COMPLETED /\ responses[i].completed_at = now

\* The Answers of the sessions other than ur are the same before and after.
OthersUntouched(ur) ==
    \A r \in DOMAIN answers \cup DOMAIN answers' :
        r.ur # ur =>
            /\ r \in DOMAIN answers /\ r \in DOMAIN answers'
            /\ answers'[r] = answers[r]

\* C11: on an anonymous survey an accepted submit-answer whose token names no
\* session of that survey creates exactly one new InProgress session, stores
\* its answer there and returns that session's id as the token; an accepted
\* submit-answer carrying the token of a session is applied to that session,
\* creates no session and is issued no token.
C11_AnonymousSession ==
    [][(resp'.op = "create" /\ resp'.err = OK) =>
        \A sv \in DOMAIN surveys : \A v \in Visitors(sv) :
          \A q \in DOMAIN questions, o \in DOMAIN options \cup {None}, t \in {None, "x"} :
            (surveys[sv].is_anonymous /\ CreateUserAnswer(v[1], v[2], sv, q, o, t)) =>
                IF SessionsOf(sv, v[1], v[2]) = {}
                THEN /\ responses' = Append(responses, NewResponse(None, sv))
                     /\ responses'[Len(responses')].status = IN_PROGRESS
                     /\ resp'.cookie = Len(responses')
                     /\ OthersUntouched(Len(responses'))
                ELSE /\ responses' = responses
                     /\ resp'.cookie = NoToken
                     /\ OthersUntouched(v[2])]_vars

\* An anonymous session holds answers to both questions and the last accepted
\* submission, which carried its token, was issued no token.
C11_Witness ==
    /\ surveys["s1"].is_anonymous
    /\ resp.op = "create" /\ resp.err = OK /\ resp.cookie = NoToken
    /\ Len(responses) >= 1
    /\ CountOf(answers, 1, "q1") >= 1 /\ CountOf(answers, 1, "q2") >= 1

\* The tokens a request can carry: none, or the id of a session.
Tokens == {NoToken} \cup DOMAIN responses

\* C12: on a non-anonymous survey the session is resolved from the caller
\* alone.  In every reachable state, for every user and any two tokens, the
\* two requests that differ only in the token resolve the same session, in
\* the validators and in get-or-create, get the same verdict of the
\* submit-answer, complete and retrieve checkers and the same retrieved
\* body, and leave the same sessions behind.
C12_TokenIgnored ==
    \A sv \in DOMAIN surveys : \A caller \in Users : \A tk1, tk2 \in Tokens :
        ~surveys[sv].is_anonymous =>
            LET user == EffectiveUser(caller, sv)
                req1 == Request(user, sv, None, None, None, tk1)
                req2 == Request(user, sv, None, None, None, tk2)
            IN /\ GetUserResponse(sv, user, tk1) = GetUserResponse(sv, user, tk2)
               /\ GetOrCreateMatches(user, sv, tk1) = GetOrCreateMatches(user, sv, tk2)
               /\ \A q \in DOMAIN questions, o \in DOMAIN options \cup {None},
                     t \in {None, "x"} :
                     UserAnswerChecker(Request(user, sv, q, o, t, tk1))
                        = UserAnswerChecker(Request(user, sv, q, o, t, tk2))
               /\ \A err \in {OK, ErrNotActive} :
                     GetOrCreateUserResponse(err, user, sv, tk1)
                        = GetOrCreateUserResponse(err, user, sv, tk2)
               /\ Picks(sv, user, tk1) = Picks(sv, user, tk2)
               /\ \A pick \in Picks(sv, user, tk1) :
                     /\ CompletedSurveyChecker(req1, pick) = CompletedSurveyChecker(req2, pick)
                     /\ QuestionErrorMap(req1, pick) = QuestionErrorMap(req2, pick)
               /\ GetUserResponse(sv, user, tk1) # NoToken =>
                     CompleteSurveyService(sv, user, tk1) = CompleteSurveyService(sv, user, tk2)
               /\ SurveySerializer(sv, caller, tk1) = SurveySerializer(sv, caller, tk2)

\* A non-anonymous survey has a Completed session, whose id a request may or
\* may not carry, and the survey has just been retrieved.
C12_Witness ==
    /\ ~surveys["s1"].is_anonymous
    /\ resp.op = "retrieve"
    /\ \E i \in DOMAIN responses :
          i \in Tokens /\ responses[i].user = "u2" /\ responses[i].status = COMPLETED

\* C13: a retrieve request fails with a validation error iff the survey is
\* non-anonymous, the caller is not one of its owners and the caller's
\* session for it is Completed; every other permitted caller (an owner, a
\* caller with no session or with an InProgress one) gets the survey, and
\* no retrieve changes the stored state.
C13_RetrieveIff ==
    [][resp'.op = "retrieve" =>
        \A sv \in DOMAIN surveys : \A v \in Visitors(sv) :
            Retrieve(v[1], v[2], sv) =>
                /\ (resp'.err # OK) <=>
                      /\ ~surveys[sv].is_anonymous
                      /\ v[1] \notin surveys[sv].owners
                      /\ \E i \in SessionsOf(sv, v[1], v[2]) :
                            responses[i].status = COMPLETED
                /\ resp'.err # OK => resp'.err = ErrCompleted
                /\ UNCHANGED store]_vars

\* The retrieve of u2, who is no owner and has completed the survey, has
\* been rejected.
C13_Witness ==
    /\ resp.op = "retrieve" /\ resp.err = ErrCompleted
    /\ \E i \in DOMAIN responses :
          responses[i].user = "u2" /\ responses[i].status = COMPLETED

----------------------------------------------------------------------------
\* Properties of requests handled at the same time (checked under SpecRace).

\* C15: in every execution, interleaved complete requests for one session
\* included, a session's status only ever changes from InProgress to
\* Completed, and once completed_at has been set it never changes.
C15_CompletedOnce ==
    [][\A i \in DOMAIN responses :
          /\ responses'[i].status # responses[i].status =>
                responses[i].status = IN_PROGRESS /\ responses'[i].status = COMPLETED
          /\ responses[i].completed_at # NullTime =>
                responses'[i].completed_at = responses[i].completed_at]_vars

C17_NoAnswerAfterCompleted ==
    [][\A i \in DOMAIN responses :
          responses[i].status = COMPLETED =>
             \A r \in DOMAIN answers \cup DOMAIN answers' :
                r.ur = i =>
                   /\ r \in DOMAIN answers /\ r \in DOMAIN answers'
                   /\ answers'[r] = answers[r]]_vars

\* C18: however a complete request interleaves with submit-answer requests
\* of the same session, at the moment the status becomes Completed every
\* question of the survey passes its sufficiency check on the answers
\* stored at that moment.
C18_SufficientWhenCompleted ==
    [][\A i \in DOMAIN responses :
          (responses[i].status # COMPLETED /\ responses'[i].status = COMPLETED) =>
             \A pick \in Picks(responses[i].survey, responses[i].user, i) :
                AllSufficient(responses[i].survey, responses[i].user, i, pick)]_vars

----------------------------------------------------------------------------
\* Properties of the statistics (checked under SpecStat).

\* The sum of count over a list of answer entries.
RECURSIVE SumCount(_)
SumCount(entries) ==
    IF entries = << >> THEN 0 ELSE Head(entries).count + SumCount(Tail(entries))

\* C19: in the statistics a request returns only Answers of Completed
\* sessions are counted, and for every reported question the sum of count
\* over its answer entries equals the question's total_count (the options
\* added with no selection count 0).
C19_CountsAddUp ==
    (resp.op = "stat" /\ resp.err = OK) =>
        \A k \in DOMAIN resp.data.questions :
            LET question == resp.data.questions[k]
            IN /\ SumCount(question.answers) = question.total_count
               /\ question.total_count
                     <= SumOver(answers, {r \in DOMAIN answers :
                                           /\ r.q = question.uuid
                                           /\ responses[r.ur].status = COMPLETED})

\* The Completed sessions of the survey that hold an Answer to q.
Respondents(sv, q) ==
    {i \in DOMAIN responses :
        /\ responses[i].survey = sv /\ responses[i].status = COMPLETED
        /\ \E r \in DOMAIN answers : r.ur = i /\ r.q = q}

\* The number of Answers to q (and to option o of q) that Completed sessions
\* of the survey hold.
AnswersTo(sv, q) ==
    SumOver(answers, {r \in DOMAIN answers :
                         /\ r.q = q
                         /\ responses[r.ur].survey = sv
                         /\ responses[r.ur].status = COMPLETED})

AnswersToOption(sv, q, o) ==
    SumOver(answers, {r \in DOMAIN answers :
                         /\ r.q = q /\ r.opt = o
                         /\ responses[r.ur].survey = sv
                         /\ responses[r.ur].status = COMPLETED})

\* p hundredths of a percent is count * 100 / total to two decimals.
IsPercentage(p, count, total) ==
    /\ 2 * (p * total - 10000 * count) <= total
    /\ 2 * (10000 * count - p * total) <= total

\* C20 as claimed: a question's total_count is the number of Completed
\* respondents who answered the question, each counted once, and each
\* option's percentage is its count * 100 / that number.
C20_TotalIsRespondents ==
    (resp.op = "stat" /\ resp.err = OK) =>
        \A k \in DOMAIN resp.data.questions :
            LET question == resp.data.questions[k]
                total == Cardinality(Respondents("s1", question.uuid))
            IN /\ question.total_count = total
               /\ \A i \in DOMAIN question.answers :
                     IsPercentage(question.answers[i].percentage,
                                  question.answers[i].count, total)

\* C20: a question's total_count is the number of Answers that Completed
\* sessions hold for the question, so a respondent who selected several
\* options is counted once per option; the percentage of an entry that
\* counts Answers is its count * 100 divided by the number of such Answers
\* to the question those Answers were given to, to two decimals, and the
\* percentage of an option added with no selection is 0.
C20_TotalIsAnswers ==
    (resp.op = "stat" /\ resp.err = OK) =>
        \A k \in DOMAIN resp.data.questions :
            LET question == resp.data.questions[k]
            IN /\ question.total_count = AnswersTo("s1", question.uuid)
               /\ \A i \in DOMAIN question.answers :
                     LET entry == question.answers[i]
                     IN IF entry.count = 0
                        THEN entry.percentage = 0
                        ELSE \E q \in DOMAIN questions :
                                /\ questions[q].name = question.name
                                /\ entry.count = AnswersToOption("s1", q, entry.uuid)
                                /\ IsPercentage(entry.percentage, entry.count,
                                                AnswersTo("s1", q))

\* The statistics report a total_count of 2 for a question that one
\* respondent, who selected both options, has answered.
C20_Witness ==
    /\ resp.op = "stat" /\ resp.err = OK
    /\ \E k \in DOMAIN resp.data.questions :
          /\ resp.data.questions[k].total_count = 2
          /\ Cardinality(Respondents("s1", resp.data.questions[k].uuid)) = 1
          /\ \E i \in DOMAIN resp.data.questions[k].answers :
                resp.data.questions[k].answers[i].percentage = 5000

\* C21: in the statistics a request returns, after the options with no
\* selection are added, the answers list of every reported question holds
\* every answer option of the question exactly once, the unselected ones
\* with count 0 and percentage 0, and the entries of the list that name an
\* option, selected and unselected together, are in the order of the
\* options' seq_id.
C21_OptionsInOrder ==
    (resp.op = "stat" /\ resp.err = OK) =>
        \A k \in DOMAIN resp.data.questions :
            LET question == resp.data.questions[k]
                entries == question.answers
            IN /\ \A o \in OptionsOf(question.uuid) :
                     /\ Cardinality({i \in DOMAIN entries : entries[i].uuid = o}) = 1
                     /\ \A i \in DOMAIN entries :
                           (entries[i].uuid = o /\ AnswersToOption("s1", question.uuid, o) = 0) =>
                               entries[i].count = 0 /\ entries[i].percentage = 0
               /\ \A i, j \in DOMAIN entries :
                     (i < j /\ entries[i].uuid # None /\ entries[j].uuid # None) =>
                         options[entries[i].uuid].seq_id <= options[entries[j].uuid].seq_id

----------------------------------------------------------------------------
\* Properties of the per-respondent statistics (checked under SpecUserStat).

\* The Completed sessions of the survey that hold an Answer.
CompletedWithAnswers(sv) ==
    {i \in DOMAIN responses :
        /\ responses[i].survey = sv /\ responses[i].status = COMPLETED
        /\ \E r \in DOMAIN answers : r.ur = i}

----------------------------------------------------------------------------
\* Properties of the life of a survey (checked under SpecClose).

\* C23: a survey's end_date is set exactly when its status goes to Closed
\* and is not changed otherwise: the save of a survey that ends up Draft,
\* Active or Archived leaves end_date as it was, the save that takes the
\* status to Closed sets it to the current time, and the save of a survey
\* that is Closed already leaves it as it was.
C23_EndDateOnClose ==
    [][\A sv \in DOMAIN surveys :
          LET closing == surveys[sv].status # CLOSED /\ surveys'[sv].status = CLOSED
          IN /\ closing => surveys'[sv].end_date = now
             /\ ~closing => surveys'[sv].end_date = surveys[sv].end_date]_vars

\* C26: a survey is changed only by its owners: an update of the survey,
\* its status included, and an update of one of its questions take effect
\* only if the caller is one of the survey's owners; the same request of
\* any other caller changes no row.
C26_OwnersOnly ==
    [][/\ resp'.op = "update" =>
            \A caller \in Callers, st \in StatusData, name \in NameData :
                (/\ caller \notin surveys["s1"].owners
                 /\ UpdateSurvey(caller, "s1", [name |-> name, status |-> st])) =>
                    UNCHANGED store
       /\ resp'.op = "question_update" =>
            \A caller \in Callers, q \in DOMAIN questions, ty \in QuestionType :
                (/\ caller \notin surveys[questions[q].survey].owners
                 /\ UpdateQuestion(caller, q, [type |-> ty, name |-> Absent])) =>
                    UNCHANGED store]_vars

----------------------------------------------------------------------------
\* Properties of requests about two surveys (checked under SpecCross).

\* C24: for a caller who has a session on the survey, the can_finish flag
\* of the retrieved survey is true iff every question of that survey has
\* an Answer of that session.
C24_CanFinishIff ==
    (resp.op = "retrieve" /\ resp.err = OK /\ resp.data.user_response # NoToken) =>
        LET ur == resp.data.user_response
        IN resp.data.can_finish <=>
              \A q \in QuestionsOf(responses[ur].survey) :
                 \E r \in DOMAIN answers : r.ur = ur /\ r.q = q

\* C25: a submit-answer request whose question belongs to another survey
\* than the survey the request declares is rejected and changes no row, so
\* that after every submit-answer request each Answer is to a question of
\* the survey of its session.
C25_QuestionOfSurvey ==
    [][resp'.op = "create" =>
        /\ \A caller \in Users, sv \in DOMAIN surveys, q \in DOMAIN questions,
              o \in DOMAIN options \cup {None}, t \in {None, "x"} :
                (questions[q].survey # sv /\ CreateUserAnswer(caller, NoToken, sv, q, o, t)) =>
                    resp'.err # OK /\ UNCHANGED store
        /\ \A r \in DOMAIN answers' :
              questions'[r.q].survey = responses'[r.ur].survey]_vars

----------------------------------------------------------------------------
\* Properties of the order of the checks (checked under SpecOrder).

\* What a submit-answer request violates.
ChoiceShapeWrong(q, t) == questions[q].type # TEXT /\ Truthy(t)
TextShapeWrong(q, o) == questions[q].type = TEXT /\ Truthy(o)
SessionCompleted(sv, user) ==
    \E i \in DOMAIN responses :
        /\ responses[i].survey = sv /\ responses[i].user = user
        /\ responses[i].status = COMPLETED

\* The error of a submit-answer request when the checks come in the order
\* survey Active, answer shape, session not Completed.
ShapeThenCompleted(sv, user, q, o, t) ==
    IF surveys[sv].status # ACTIVE THEN ErrNotActive
    ELSE IF ChoiceShapeWrong(q, t) THEN ErrChoiceShape
    ELSE IF TextShapeWrong(q, o) THEN ErrTextShape
    ELSE IF SessionCompleted(sv, user) THEN ErrCompleted
    ELSE OK

\* The error of a submit-answer request when the checks come in the order
\* survey Active, no text on a non-Text question, session not Completed, no
\* option on a Text question.
CompletedBeforeTextShape(sv, user, q, o, t) ==
    IF surveys[sv].status # ACTIVE THEN ErrNotActive
    ELSE IF ChoiceShapeWrong(q, t) THEN ErrChoiceShape
    ELSE IF SessionCompleted(sv, user) THEN ErrCompleted
    ELSE IF TextShapeWrong(q, o) THEN ErrTextShape
    ELSE OK

\* The publication of a survey without a name fails with the survey-name
\* error whatever its questions and options are like, and the statistics
\* request of a caller who is no owner fails with the not-owner error
\* whether there are statistics or not.
PublishAndStatInOrder ==
    /\ resp'.op = "update" =>
          ((~Truthy(surveys["s1"].name)
            /\ UpdateSurvey("u1", "s1", [name |-> Absent, status |-> ACTIVE]))
              => resp'.err = ErrSurveyName)
    /\ resp'.op = "stat" =>
          \A caller \in Users :
              (caller \notin surveys["s1"].owners /\ Stat(caller, "s1"))
                  => resp'.err = ErrNotOwner

\* C27 as claimed: each pipeline stops at its first failing check; for
\* submit-answer the order is survey Active, answer shape, session not
\* Completed, so that a wrong shape of either kind is reported before an
\* already completed session; for publish the survey-name error comes
\* before the question and option errors, for the statistics the not-owner
\* error before the no-statistics error.
C27_ShapeBeforeCompleted ==
    [][/\ resp'.op = "create" =>
            \A o \in DOMAIN options \cup {None}, t \in {None, "x"} :
                CreateUserAnswer("u1", NoToken, "s1", "q1", o, t) =>
                    resp'.err = ShapeThenCompleted("s1", "u1", "q1", o, t)
       /\ PublishAndStatInOrder]_vars

\* C27: each pipeline stops at its first failing check; for submit-answer
\* the order is survey Active, no text on a non-Text question, session not
\* Completed, no option on a Text question: an inactive survey yields the
\* not-active error whatever else is wrong, text on a non-Text question is
\* reported before an already completed session, and an option on a Text
\* question only after it; for publish the survey-name error comes before
\* the question and option errors, for the statistics the not-owner error
\* before the no-statistics error.
C27_ListedOrder ==
    [][/\ resp'.op = "create" =>
            \A o \in DOMAIN options \cup {None}, t \in {None, "x"} :
                CreateUserAnswer("u1", NoToken, "s1", "q1", o, t) =>
                    resp'.err = CompletedBeforeTextShape("s1", "u1", "q1", o, t)
       /\ PublishAndStatInOrder]_vars

\* u1 has completed the Active survey and then sent text for its choice
\* question: of the two failing checks the shape error is the one reported.
C27_Witness ==
    /\ resp.op = "create" /\ resp.err = ErrChoiceShape
    /\ surveys["s1"].status = ACTIVE
    /\ SessionCompleted("s1", "u1")

----------------------------------------------------------------------------
\* Properties of the publish gate (checked under SpecPublish).

\* The conditions of a publishable survey.
Publishable(sv) ==
    /\ surveys[sv].name # ""
    /\ QuestionsOf(sv) # {}
    /\ \A q \in QuestionsOf(sv) : questions[q].name # ""
    /\ \A q \in QuestionsOf(sv) :
          questions[q].type # TEXT =>
             /\ OptionsOf(q) # {}
             /\ \A o \in OptionsOf(q) : options[o].name # ""
    /\ \A p, q \in QuestionsOf(sv) : p # q => questions[p].name # questions[q].name
    /\ \A q \in QuestionsOf(sv) : \A o, u \in OptionsOf(q) :
          o # u => options[o].name # options[u].name

\* C10: an update request that sets the status to Active succeeds iff, at
\* that moment, the survey's name is non-empty, it has a question, every
\* question name is non-empty, every non-Text question has an option and
\* all its options have non-empty names, no two questions share a name and
\* no two options of one question share a name; otherwise it fails with a
\* validation error and the survey stays as it was.  A request with another
\* status, or none, is not checked and succeeds.
C10_PublishValidated ==
    [][resp'.op = "update" =>
        \A caller \in Users, st \in StatusData, name \in NameData :
            UpdateSurvey(caller, "s1", [name |-> name, status |-> st]) =>
                IF st = ACTIVE
                THEN /\ (resp'.err = OK) <=> Publishable("s1")
                     /\ resp'.err = OK => surveys'["s1"].status = ACTIVE
                     /\ resp'.err # OK =>
                           /\ resp'.err \in {ErrSurveyName, ErrNoQuestions,
                                             ErrQuestionName, ErrNoOptions,
                                             ErrOptionName, ErrDupQuestions,
                                             ErrDupOptions}
                           /\ surveys' = surveys
                ELSE /\ resp'.err = OK
                     /\ st # Absent => surveys'["s1"].status = st]_vars

\* The publication of a survey that meets every other condition has been
\* rejected because two options of one question share a name.
C10_Witness ==
    /\ resp.op = "update" /\ resp.err = ErrDupOptions
    /\ surveys["s1"].status = DRAFT

----------------------------------------------------------------------------
\* Properties of respondents side by side (checked under SpecIsolation).

\* Session i and its Answers are after the step what they were before it.
SessionKept(i) ==
    /\ responses'[i] = responses[i]
    /\ \A r \in DOMAIN answers \cup DOMAIN answers' :
          r.ur = i => /\ r \in DOMAIN answers /\ r \in DOMAIN answers'
                      /\ answers'[r] = answers[r]

\* The step keeps every session that is not the respondent's own on survey
\* sv, and a session it creates is the respondent's, on that survey.
OnlyOwnSession(sv, caller, token) ==
    /\ \A i \in DOMAIN responses \ SessionsOf(sv, caller, token) : SessionKept(i)
    /\ \A i \in DOMAIN responses' \ DOMAIN responses :
          /\ responses'[i].survey = sv
          /\ responses'[i].user = EffectiveUser(caller, sv)

====
